---- MODULE Spec2Model ----
(***************************************************************************)
(* Model of the CPD Active Calls tracker (scripts/fetch_active_calls.py)   *)
(* and of its alert evaluator (scripts/discord_alerts.py).                 *)
(*                                                                         *)
(* Text is a sequence of one-character strings, so that upper() and the    *)
(* substring test `in` are computed and not assumed.  A JSON file is a     *)
(* record [exists, ...]; the snapshot file holds the sequence of chunks    *)
(* json.dump writes, so that a half-written file is a state of the model.  *)
(* Python's None is the string "None" for identifiers and 0 for            *)
(* timestamps (the clock starts at 1).                                     *)
(***************************************************************************)
EXTENDS Integers, Sequences, FiniteSets, TLC

VARIABLES
    snapshotFile,    \* data/current_calls.json: [exists, content (chunks)]
    logFile,         \* data/historical_log.txt: [exists, content (lines)]
    archive,         \* data/archive/<date>.json, one entry per date
    statsFile,       \* analysis/stats.json: [exists, data]
    today,           \* local calendar date, as a day number
    now,             \* clock: number of invocations of main so far
    exitCode,        \* return value of the last main(); -1 before any run
    previous_calls,  \* main's local of the last invocation
    current_calls,   \* main's local of the last invocation
    new_calls,       \* main's local of the last invocation
    resolved_calls,  \* main's local of the last invocation
    counts,          \* history: active count of every successful cycle
    firstDup,        \* history: the first cycle whose fetched snapshot repeated an
                     \* identifier, counted among the successful cycles; 0 if none
    pc,              \* position of the process inside save_current_calls
    pending,         \* chunks json.dump has produced but not yet flushed
    oldFile,         \* the snapshot file as it was when save_current_calls was entered
    readResult,      \* what the last reader of the snapshot file obtained
    alertCallTypes,  \* ALERT_CALL_TYPES
    alertAddresses,  \* ALERT_ADDRESSES
    webhook,         \* WEBHOOK_URL is set
    alerts,          \* result of check_alerts in the last alert run
    sent,            \* alerts handed to send_discord_alert, in call order
    posted           \* alerts whose POST succeeded, in call order

vars == <<snapshotFile, logFile, archive, statsFile, today, now, exitCode,
          previous_calls, current_calls, new_calls, resolved_calls, counts,
          firstDup, pc, pending, oldFile, readResult, alertCallTypes,
          alertAddresses, webhook, alerts, sent, posted>>

fileVars == <<snapshotFile, logFile, archive, statsFile>>
mainLocals == <<previous_calls, current_calls, new_calls, resolved_calls>>
raceVars == <<pc, pending, oldFile, readResult>>
alertVars == <<alertCallTypes, alertAddresses, webhook, alerts, sent, posted>>

(***************************************************************************)
(* Bounds                                                                  *)
(***************************************************************************)
MaxRuns == 3        \* invocations of main in one behaviour
MaxDay == 2         \* calendar days the runs may spread over
MaxCalls == 1       \* records in one fetched snapshot
MaxCmpLen == 2      \* records in one argument of compare_calls
MaxAlertCalls == 11 \* records in the snapshot the alert evaluator reads
MaxRuleCalls == 2   \* records in a snapshot with arbitrary descriptions
MaxTotalsCalls == 2 \* records in one fetched snapshot of SpecTotals

(***************************************************************************)
(* Generic helpers                                                         *)
(***************************************************************************)
None == "None"

SeqsUpTo(S, n) == UNION {[1..k -> S] : k \in 0..n}

Min(a, b) == IF a < b THEN a ELSE b

Take(s, n) == SubSeq(s, 1, Min(n, Len(s)))

IsPrefix(s, t) == Len(s) <= Len(t) /\ SubSeq(t, 1, Len(s)) = s

\* dict.get(key, default)
Get(call, key, default) == IF key \in DOMAIN call THEN call[key] ELSE default

RECURSIVE MaxOf(_)
MaxOf(s) ==
    IF s = <<>> THEN 0
    ELSE LET m == MaxOf(Tail(s)) IN IF Head(s) > m THEN Head(s) ELSE m

(***************************************************************************)
(* Text                                                                    *)
(***************************************************************************)
Str_Unknown == <<"U", "n", "k", "n", "o", "w", "n">>
Str_UnknownCallType == <<"U", "n", "k", "n", "o", "w", "n", " ", "C", "a", "l", "l", " ", "T", "y", "p", "e">>
Str_UnknownLocation == <<"U", "n", "k", "n", "o", "w", "n", " ", "L", "o", "c", "a", "t", "i", "o", "n">>

LowerLetters == <<"a", "b", "c", "d", "e", "f", "g", "h", "i", "j", "k", "l", "m",
                  "n", "o", "p", "q", "r", "s", "t", "u", "v", "w", "x", "y", "z">>
UpperLetters == <<"A", "B", "C", "D", "E", "F", "G", "H", "I", "J", "K", "L", "M",
                  "N", "O", "P", "Q", "R", "S", "T", "U", "V", "W", "X", "Y", "Z">>

\* str.upper() on one ASCII character: a..z go to A..Z, digits, blanks,
\* punctuation and upper-case letters stay
UpperChar(ch) ==
    IF \E i \in 1..26 : LowerLetters[i] = ch
    THEN UpperLetters[CHOOSE i \in 1..26 : LowerLetters[i] = ch]
    ELSE ch

\* str.upper()
Upper(s) == [i \in 1..Len(s) |-> UpperChar(s[i])]

\* `needle in hay` for str: needle is a contiguous part of hay
Contains(hay, needle) ==
    \E i \in 0..(Len(hay) - Len(needle)) :
        \A j \in 1..Len(needle) : hay[i + j] = needle[j]

(***************************************************************************)
(* Call records                                                            *)
(***************************************************************************)
Date_Morning == "2024-01-15T09:30:00"
Date_AfternoonZ == "2024-01-15T14:05:00Z"
Date_Bad == "not-a-date"

ParsedNone == [ok |-> FALSE, hour |-> 0, clock |-> "Unknown Time"]

\* datetime.fromisoformat(s.replace('Z', '+00:00')), None on ValueError;
\* clock is what strftime('%I:%M %p') gives for the parsed value
parse_response_date(s) ==
    CASE s = Date_Morning -> [ok |-> TRUE, hour |-> 9, clock |-> "09:30 AM"]
      [] s = Date_AfternoonZ -> [ok |-> TRUE, hour |-> 14, clock |-> "02:05 PM"]
      [] OTHER -> ParsedNone

Call(id, desc, addr, rdate) ==
    [Master_Incident_Number |-> id, Online_Description |-> desc,
     Address |-> addr, Response_Date |-> rdate]

\* a record of the payload that carries no identifier and no date
CallNoId(desc, addr) == [Online_Description |-> desc, Address |-> addr]

Id(call) == Get(call, "Master_Incident_Number", None)

\* records the Fetcher may return in the pipeline
PipelineCalls ==
    { Call("A1", <<"T", "S">>, <<"1", "C">>, Date_Morning),
      Call("B2", <<"s", "t">>, <<"2", "C">>, Date_Bad) }

HasDuplicateIds(calls) ==
    \E i, j \in 1..Len(calls) : i # j /\ Id(calls[i]) = Id(calls[j])

(***************************************************************************)
(* Snapshot store                                                          *)
(***************************************************************************)
NoFile == [exists |-> FALSE, content |-> <<>>]

ChunkOpen == [kind |-> "open", val |-> [indent |-> 2]]
ChunkCall(c) == [kind |-> "call", val |-> c]
ChunkTrailer(ts, n) == [kind |-> "trailer", val |-> [timestamp |-> ts, count |-> n]]

\* json.dump(data, f, indent=2): the chunks written for
\* {"calls": [...], "timestamp": ..., "count": ...}, in key order
Dump(data) ==
    <<ChunkOpen>> \o [i \in 1..Len(data.calls) |-> ChunkCall(data.calls[i])]
                  \o <<ChunkTrailer(data.timestamp, data.count)>>

\* json.load accepts exactly a complete document
WellFormed(content) ==
    /\ Len(content) >= 2
    /\ content[1].kind = "open"
    /\ content[Len(content)].kind = "trailer"
    /\ \A i \in 2..(Len(content) - 1) : content[i].kind = "call"

JSONDecodeError == [ok |-> FALSE, calls |-> <<>>, timestamp |-> 0, count |-> 0]

\* json.load(f)
Load(content) ==
    IF WellFormed(content)
    THEN [ok |-> TRUE,
          calls |-> [i \in 1..(Len(content) - 2) |-> content[i + 1].val],
          timestamp |-> content[Len(content)].val.timestamp,
          count |-> content[Len(content)].val.count]
    ELSE JSONDecodeError

\* load_previous_calls(); the default has no "count" key, modelled as 0
load_previous_calls(file) ==
    IF file.exists THEN Load(file.content)
    ELSE [ok |-> TRUE, calls |-> <<>>, timestamp |-> 0, count |-> 0]

\* the dict save_current_calls builds
SnapshotData(calls, timestamp) ==
    [calls |-> calls, timestamp |-> timestamp, count |-> Len(calls)]

\* save_current_calls(calls, timestamp), run to completion
save_current_calls(calls, timestamp) ==
    [exists |-> TRUE, content |-> Dump(SnapshotData(calls, timestamp))]

(***************************************************************************)
(* Differ                                                                  *)
(***************************************************************************)
IdSet(calls) == {Id(calls[i]) : i \in 1..Len(calls)}

\* [c for c in calls if c.get('Master_Incident_Number') in ids]
RECURSIVE FilterByIds(_, _)
FilterByIds(calls, ids) ==
    IF calls = <<>> THEN <<>>
    ELSE (IF Id(Head(calls)) \in ids THEN <<Head(calls)>> ELSE <<>>)
         \o FilterByIds(Tail(calls), ids)

\* variant: membership is decided on whole records, not on identifiers
compare_calls_ByRecord(previous, current) ==
    LET prev == {previous[i] : i \in 1..Len(previous)}
        curr == {current[i] : i \in 1..Len(current)}
    IN  [new |-> SelectSeq(current, LAMBDA c : c \notin prev),
         resolved |-> SelectSeq(previous, LAMBDA c : c \notin curr)]

\* variant: the resolved records are looked up in the current snapshot
compare_calls_ResolvedFromCurrent(previous, current) ==
    LET prev_ids == IdSet(previous)
        curr_ids == IdSet(current)
    IN  [new |-> FilterByIds(current, curr_ids \ prev_ids),
         resolved |-> FilterByIds(current, prev_ids \ curr_ids)]

compare_calls(previous, current) ==
    LET prev_ids == IdSet(previous)
        curr_ids == IdSet(current)
        new_ids == curr_ids \ prev_ids
        resolved_ids == prev_ids \ curr_ids
    IN  [new |-> FilterByIds(current, new_ids),
         resolved |-> FilterByIds(previous, resolved_ids)]

(***************************************************************************)
(* Historical log writer                                                   *)
(***************************************************************************)
NoLog == [exists |-> FALSE, content |-> <<>>]

Line(tag, arg) == [tag |-> tag, arg |-> arg]

LineRule == Line("rule", [width |-> 80])

\* the three lines main writes when it creates the log
Banner(ts) ==
    << Line("title", [text |-> "CLEARWATER PD ACTIVE CALLS - HISTORICAL LOG"]),
       Line("started", [timestamp |-> ts]),
       LineRule >>

format_call_for_log(call, status) ==
    LET incident_num == Get(call, "Master_Incident_Number", "UNKNOWN")
        description == Get(call, "Online_Description", Str_UnknownCallType)
        address == Get(call, "Address", Str_UnknownLocation)
        response_date == Get(call, "Response_Date", "")
        parsed_time == parse_response_date(response_date)
        time_str == IF parsed_time.ok THEN parsed_time.clock ELSE "Unknown Time"
    IN  Line("call", [status |-> status, incident |-> incident_num,
                      description |-> description, address |-> address,
                      response |-> time_str])

BlockHeader(timestamp, total_active) ==
    << LineRule,
       Line("timestamp", [timestamp |-> timestamp]),
       Line("total", [total_active |-> total_active]),
       LineRule >>

Section(calls, status) ==
    IF calls = <<>> THEN <<>>
    ELSE <<Line("section", [status |-> status, n |-> Len(calls)])>>
         \o [i \in 1..Len(calls) |-> format_call_for_log(calls[i], status)]

\* everything one call of append_to_log writes
LogBlock(timestamp, new, resolved, total_active) ==
    BlockHeader(timestamp, total_active)
    \o Section(new, "NEW")
    \o Section(resolved, "RESOLVED")
    \o (IF new = <<>> /\ resolved = <<>>
        THEN <<Line("nochange", [text |-> "No changes since last check."])>>
        ELSE <<>>)

\* variant: the log is opened with 'w'
append_to_log_Truncate(log, timestamp, new, resolved, total_active) ==
    [exists |-> TRUE,
     content |-> LogBlock(timestamp, new, resolved, total_active)]

\* append_to_log: open(..., 'a') creates the file when it is missing
append_to_log(log, timestamp, new, resolved, total_active) ==
    [exists |-> TRUE,
     content |-> log.content \o LogBlock(timestamp, new, resolved, total_active)]

(***************************************************************************)
(* Archiver                                                                *)
(***************************************************************************)
Days == 1..MaxDay

NoArchive == [exists |-> FALSE, data |-> [date |-> 0, snapshots |-> <<>>]]

\* variant: the existing day file is not loaded
archive_daily_data_Fresh(arch, calls, timestamp, date_str) ==
    [arch EXCEPT ![date_str] =
        [exists |-> TRUE,
         data |-> [date |-> date_str,
                   snapshots |-> <<[timestamp |-> timestamp,
                                    call_count |-> Len(calls), calls |-> calls]>>]]]

archive_daily_data(arch, calls, timestamp, date_str) ==
    LET archive_data == IF arch[date_str].exists THEN arch[date_str].data
                        ELSE [date |-> date_str, snapshots |-> <<>>]
        entry == [timestamp |-> timestamp, call_count |-> Len(calls), calls |-> calls]
    IN  [arch EXCEPT ![date_str] =
            [exists |-> TRUE,
             data |-> [archive_data EXCEPT !.snapshots = Append(@, entry)]]]

(***************************************************************************)
(* Stats aggregator                                                        *)
(***************************************************************************)
HourKeys == {ToString(i) : i \in 0..23}

FreshStats ==
    [total_calls_tracked |-> 0, total_resolved |-> 0,
     call_types |-> <<>>, addresses |-> <<>>,
     hourly_distribution |-> [k \in HourKeys |-> 0],
     first_tracked |-> 0, last_updated |-> 0,
     peak_active_calls |-> 0, total_snapshots |-> 0]

NoStats == [exists |-> FALSE, data |-> FreshStats]

\* table[key] = table.get(key, 0) + 1
Bump(table, key) ==
    IF key \in DOMAIN table THEN [table EXCEPT ![key] = @ + 1]
    ELSE [k \in DOMAIN table \cup {key} |-> IF k = key THEN 1 ELSE table[k]]

\* the body of `for call in new_calls` for one call
TallyCall(stats, call) ==
    LET call_type == Get(call, "Online_Description", Str_Unknown)
        address == Get(call, "Address", Str_Unknown)
        parsed_time == parse_response_date(Get(call, "Response_Date", ""))
    IN  [stats EXCEPT
            !.call_types = Bump(@, call_type),
            !.addresses = Bump(@, address),
            !.hourly_distribution =
                IF parsed_time.ok THEN Bump(@, ToString(parsed_time.hour)) ELSE @]

RECURSIVE TallyCalls(_, _)
TallyCalls(stats, calls) ==
    IF calls = <<>> THEN stats
    ELSE TallyCalls(TallyCall(stats, Head(calls)), Tail(calls))

\* variant: the peak is overwritten by the latest count
NewPeak_Latest(peak, total_active) == total_active

\* peak_active_calls after one update
NewPeak(peak, total_active) == IF total_active > peak THEN total_active ELSE peak

\* variant: the totals are assigned, not accumulated
BasicCounts_Assign(stats, new, resolved, total_active, timestamp) ==
    [stats EXCEPT
        !.total_calls_tracked = Len(new),
        !.total_resolved = Len(resolved),
        !.last_updated = timestamp,
        !.total_snapshots = @ + 1,
        !.first_tracked = IF @ = 0 THEN timestamp ELSE @,
        !.peak_active_calls = NewPeak(@, total_active)]

\* the counters update_stats sets before the tally loop
BasicCounts(stats, new, resolved, total_active, timestamp) ==
    [stats EXCEPT
        !.total_calls_tracked = @ + Len(new),
        !.total_resolved = @ + Len(resolved),
        !.last_updated = timestamp,
        !.total_snapshots = @ + 1,
        !.first_tracked = IF @ = 0 THEN timestamp ELSE @,
        !.peak_active_calls = NewPeak(@, total_active)]

update_stats(file, new, resolved, total_active, timestamp) ==
    LET stats == IF file.exists THEN file.data ELSE FreshStats
    IN  [exists |-> TRUE,
         data |-> TallyCalls(BasicCounts(stats, new, resolved, total_active, timestamp), new)]

(***************************************************************************)
(* Fetcher                                                                 *)
(***************************************************************************)
\* a payload that repeats an identifier
DuplicateSnapshot ==
    << Call("A1", <<"T", "S">>, <<"1", "C">>, Date_Morning),
       Call("A1", <<"S", "T">>, <<"3">>, Date_AfternoonZ) >>

FetchedSnapshots == SeqsUpTo(PipelineCalls, MaxCalls) \cup {DuplicateSnapshot}

\* what requests.get + response.json() may produce
Responses ==
    {[kind |-> "error", body |-> <<>>], [kind |-> "other", body |-> <<>>]}
    \cup {[kind |-> "list", body |-> c] : c \in FetchedSnapshots}
    \cup {[kind |-> "wrapped", body |-> c] : c \in FetchedSnapshots}

\* fetch_active_calls(): ok = FALSE stands for the None it returns on
\* requests.RequestException
fetch_active_calls(resp) ==
    CASE resp.kind = "error" -> [ok |-> FALSE, calls |-> <<>>]
      [] resp.kind = "wrapped" -> [ok |-> TRUE, calls |-> resp.body]
      [] resp.kind = "list" -> [ok |-> TRUE, calls |-> resp.body]
      [] OTHER -> [ok |-> TRUE, calls |-> <<>>]

(***************************************************************************)
(* Main pipeline                                                           *)
(***************************************************************************)
\* "Initialize log file if it doesn't exist"
InitLog(log, ts) ==
    IF log.exists THEN log ELSE [exists |-> TRUE, content |-> Banner(ts)]

\* variant: the log is initialised with open(..., 'w') unconditionally
MainAbort_Reinit(ts) ==
    /\ logFile' = [exists |-> TRUE, content |-> Banner(ts)]
    /\ exitCode' = 1
    /\ UNCHANGED <<snapshotFile, archive, statsFile, mainLocals, counts, firstDup>>

\* main() from the fetch failure on: return 1
MainAbort(ts) ==
    /\ logFile' = InitLog(logFile, ts)
    /\ exitCode' = 1
    /\ UNCHANGED <<snapshotFile, archive, statsFile, mainLocals, counts, firstDup>>

\* main() after a successful fetch
MainPersist(calls, ts) ==
    LET previous_data == load_previous_calls(snapshotFile)
        diff == compare_calls(previous_data.calls, calls)
    IN  IF ~previous_data.ok
        THEN \* json.load raises: the process dies before any other write
             MainAbort(ts)
        ELSE /\ previous_calls' = previous_data.calls
             /\ current_calls' = calls
             /\ new_calls' = diff.new
             /\ resolved_calls' = diff.resolved
             /\ logFile' = append_to_log(InitLog(logFile, ts), ts, diff.new,
                                         diff.resolved, Len(calls))
             /\ snapshotFile' = save_current_calls(calls, ts)
             /\ archive' = archive_daily_data(archive, calls, ts, today)
             /\ statsFile' = update_stats(statsFile, diff.new, diff.resolved,
                                          Len(calls), ts)
             /\ exitCode' = 0
             /\ counts' = Append(counts, Len(calls))
             /\ firstDup' = (IF firstDup = 0 /\ HasDuplicateIds(calls)
                             THEN Len(counts) + 1 ELSE firstDup)

\* one invocation of main() on one of the given responses, the scheduler
\* running the invocations one after another
MainOn(responses) ==
    /\ now < MaxRuns
    /\ now' = now + 1
    /\ \E resp \in responses :
          LET fetched == fetch_active_calls(resp)
          IN  IF fetched.ok THEN MainPersist(fetched.calls, now + 1)
              ELSE MainAbort(now + 1)
    /\ UNCHANGED <<today, raceVars, alertVars>>

Main == MainOn(Responses)

\* midnight passes between two invocations
NextDay ==
    /\ today < MaxDay
    /\ today' = today + 1
    /\ UNCHANGED <<fileVars, now, exitCode, mainLocals, counts, firstDup,
                   raceVars, alertVars>>

IdleRace ==
    /\ pc = "idle"
    /\ pending = <<>>
    /\ oldFile = NoFile
    /\ readResult = [read |-> FALSE, ok |-> TRUE, calls |-> <<>>, timestamp |-> 0, count |-> 0]

IdleAlerts ==
    /\ alertCallTypes = <<>>
    /\ alertAddresses = <<>>
    /\ webhook = FALSE
    /\ alerts = <<>>
    /\ sent = <<>>
    /\ posted = <<>>

IdleMain ==
    /\ now = 0
    /\ exitCode = -1
    /\ previous_calls = <<>>
    /\ current_calls = <<>>
    /\ new_calls = <<>>
    /\ resolved_calls = <<>>
    /\ counts = <<>>
    /\ firstDup = 0

Init ==
    /\ snapshotFile = NoFile
    /\ logFile = NoLog
    /\ archive = [d \in Days |-> NoArchive]
    /\ statsFile = NoStats
    /\ today = 1
    /\ IdleMain
    /\ IdleRace
    /\ IdleAlerts

Next == Main \/ NextDay

Spec == Init /\ [][Next]_vars

(***************************************************************************)
(* Properties of the serialized pipeline (specification Spec)              *)
(***************************************************************************)
FetchFailedStep == now' # now /\ exitCode' = 1
CycleStep == now' # now /\ exitCode' = 0

Stats == statsFile.data
Snapshot == Load(snapshotFile.content)

\* C1 as stated: an invocation whose fetch fails exits 1 and writes none of
\* the snapshot, the log, the archive and the stats, whatever the prior state,
\* the first run included.
C1_NoWriteOnFetchFailure ==
    [][FetchFailedStep => UNCHANGED fileVars]_vars

\* What main does on a fetch failure: it exits 1 and leaves the snapshot, the
\* archive and the stats as they were; it leaves an existing log as it was,
\* and when no log exists yet it creates it holding only the banner.
C1_FetchFailureWritesOnlyBanner ==
    [][FetchFailedStep =>
          /\ UNCHANGED <<snapshotFile, archive, statsFile>>
          /\ logFile.exists => logFile' = logFile
          /\ ~logFile.exists =>
                /\ logFile'.exists
                /\ Len(logFile'.content) = 3
                /\ logFile'.content[1].tag = "title"
                /\ logFile'.content[2] = Line("started", [timestamp |-> now'])]_vars

\* a fetch failure that follows a successful cycle
FetchFailureAfterCycle ==
    /\ exitCode = 1
    /\ snapshotFile.exists /\ statsFile.exists /\ logFile.exists
    /\ Len(counts) >= 1

\* C4: from no stats file, after N >= 1 successful cycles peak_active_calls is
\* the maximum of the N active counts, and it never decreases from one step to
\* the next (a failed fetch leaves it alone).
C4_PeakIsMaximum ==
    /\ [](statsFile.exists <=> counts # <<>>)
    /\ [](statsFile.exists => Stats.peak_active_calls = MaxOf(counts))
    /\ [][Stats'.peak_active_calls >= Stats.peak_active_calls]_vars
    /\ [][FetchFailedStep => Stats'.peak_active_calls = Stats.peak_active_calls]_vars

\* the last cycle saw fewer calls than the peak
C4_Witness ==
    /\ Len(counts) >= 2
    /\ counts[Len(counts)] < Stats.peak_active_calls
    /\ counts[Len(counts)] > 0

\* every entry of the old table is in the new one, with a count at least as big
TableGrows(old, new) ==
    \A k \in DOMAIN old : k \in DOMAIN new /\ new[k] >= old[k]

\* C5: every update_stats adds the number of new records to
\* total_calls_tracked, the number of resolved records to total_resolved and
\* one to total_snapshots, so that a second call with the same inputs doubles
\* the deltas; the three totals and every frequency-table entry never decrease.
C5_StatsAreCumulative ==
    /\ [][CycleStep =>
            /\ Stats'.total_calls_tracked = Stats.total_calls_tracked + Len(new_calls')
            /\ Stats'.total_resolved = Stats.total_resolved + Len(resolved_calls')
            /\ Stats'.total_snapshots = Stats.total_snapshots + 1
            /\ LET again == update_stats(statsFile', new_calls', resolved_calls',
                                         Len(current_calls'), now').data
               IN  /\ again.total_calls_tracked
                        = Stats.total_calls_tracked + 2 * Len(new_calls')
                   /\ again.total_resolved
                        = Stats.total_resolved + 2 * Len(resolved_calls')
                   /\ again.total_snapshots = Stats.total_snapshots + 2]_vars
    /\ [][/\ Stats'.total_calls_tracked >= Stats.total_calls_tracked
          /\ Stats'.total_resolved >= Stats.total_resolved
          /\ Stats'.total_snapshots >= Stats.total_snapshots
          /\ TableGrows(Stats.call_types, Stats'.call_types)
          /\ TableGrows(Stats.addresses, Stats'.addresses)
          /\ TableGrows(Stats.hourly_distribution, Stats'.hourly_distribution)]_vars

\* several cycles with both new and resolved records, one of them unparsable
C5_Witness ==
    /\ Stats.total_snapshots >= 2
    /\ Stats.total_calls_tracked >= 2
    /\ Stats.total_resolved >= 1
    /\ new_calls # <<>> /\ resolved_calls # <<>>
    /\ Stats.hourly_distribution["9"] + Stats.hourly_distribution["14"]
          < Stats.total_calls_tracked

CountLines(lines, tag) == Cardinality({i \in 1..Len(lines) : lines[i].tag = tag})

CountCallLines(lines, status) ==
    Cardinality({i \in 1..Len(lines) :
                    lines[i].tag = "call" /\ lines[i].arg.status = status})

\* the shape of the block one successful cycle appends
IsOneBlock(blk, ts, n, r, total) ==
    /\ Len(blk) = 4 + (IF n > 0 THEN n + 1 ELSE 0) + (IF r > 0 THEN r + 1 ELSE 0)
                    + (IF n = 0 /\ r = 0 THEN 1 ELSE 0)
    /\ blk[1].tag = "rule" /\ blk[4].tag = "rule"
    /\ blk[2] = Line("timestamp", [timestamp |-> ts])
    /\ blk[3] = Line("total", [total_active |-> total])
    /\ CountLines(blk, "timestamp") = 1
    /\ CountLines(blk, "title") = 0
    /\ CountCallLines(blk, "NEW") = n
    /\ CountCallLines(blk, "RESOLVED") = r
    /\ CountLines(blk, "section") = (IF n > 0 THEN 1 ELSE 0) + (IF r > 0 THEN 1 ELSE 0)
    /\ CountLines(blk, "nochange") = (IF n = 0 /\ r = 0 THEN 1 ELSE 0)
    /\ n > 0 => blk[5] = Line("section", [status |-> "NEW", n |-> n])
    /\ (n > 0 /\ r > 0) => blk[6 + n] = Line("section", [status |-> "RESOLVED", n |-> r])

\* C6: once the log exists, its content before a step is a prefix of its
\* content after the step; the banner is written only by a step that finds no
\* log; a successful cycle appends exactly one block after what was there.
C6_LogAppendOnly ==
    /\ [][logFile.exists =>
             logFile'.exists /\ IsPrefix(logFile.content, logFile'.content)]_vars
    /\ [][(logFile.exists /\ logFile' # logFile) =>
             CountLines(logFile'.content, "title") = CountLines(logFile.content, "title")]_vars
    /\ [](logFile.exists => CountLines(logFile.content, "title") = 1
                            /\ logFile.content[1].tag = "title")
    /\ [][CycleStep =>
             LET base == IF logFile.exists THEN Len(logFile.content) ELSE 3
                 blk == SubSeq(logFile'.content, base + 1, Len(logFile'.content))
             IN  IsOneBlock(blk, now', Len(new_calls'), Len(resolved_calls'),
                            Len(current_calls'))]_vars
    /\ [](logFile.exists =>
             CountLines(logFile.content, "timestamp") = Len(counts))

\* a log holding a block with both sections and a 'no changes' block
C6_Witness ==
    /\ logFile.exists
    /\ CountLines(logFile.content, "timestamp") >= 3
    /\ CountLines(logFile.content, "nochange") >= 1
    /\ CountCallLines(logFile.content, "RESOLVED") >= 1
    /\ CountCallLines(logFile.content, "NEW") >= 1

ArchiveEntries(d) == archive[d].data.snapshots

\* the call counts archived on days 1..d, day after day
RECURSIVE ArchivedCounts(_)
ArchivedCounts(d) ==
    IF d = 0 THEN <<>>
    ELSE ArchivedCounts(d - 1)
         \o [i \in 1..Len(ArchiveEntries(d)) |-> ArchiveEntries(d)[i].call_count]

\* C9: a successful cycle appends exactly one entry to the archive of the
\* local date of the run and changes no other day's archive; k cycles on one
\* date leave k entries in run order, and the first cycle on a new date starts
\* that date's archive with one entry and none of an earlier day.
C9_ArchivePerDay ==
    /\ [][CycleStep =>
            /\ archive'[today].exists
            /\ archive'[today].data.date = today
            /\ ArchiveEntries(today)' =
                  Append(IF archive[today].exists THEN ArchiveEntries(today) ELSE <<>>,
                         [timestamp |-> now', call_count |-> Len(current_calls'),
                          calls |-> current_calls'])
            /\ \A d \in Days \ {today} : archive'[d] = archive[d]]_vars
    /\ [][~CycleStep => archive' = archive]_vars
    /\ [](ArchivedCounts(MaxDay) = counts)
    /\ [](\A d \in Days : archive[d].exists => d <= today /\ ArchiveEntries(d) # <<>>)

\* two cycles on the first day, then one on the second
C9_Witness ==
    /\ Len(ArchiveEntries(1)) = 2
    /\ archive[2].exists
    /\ Len(ArchiveEntries(2)) = 1
    /\ ArchiveEntries(2)[1].timestamp > ArchiveEntries(1)[2].timestamp

(***************************************************************************)
(* Totals against the snapshot (specification SpecTotals)                  *)
(***************************************************************************)
Call_A1 == Call("A1", <<"T", "S">>, <<"1", "C">>, Date_Morning)
Call_B2 == Call("B2", <<"s", "t">>, <<"2", "C">>, Date_Bad)
Call_C3 == Call("C3", <<"S", "T">>, <<"3">>, Date_AfternoonZ)

\* a payload that keeps B2 of <<A1, B2>>, drops A1 and brings C3
OverlapSnapshot == <<Call_B2, Call_C3>>

\* a payload that lists C3 twice
RepeatSnapshot == <<Call_C3, Call_C3>>

\* payloads of up to MaxTotalsCalls records, identifiers repeated or not
TotalsSnapshots ==
    SeqsUpTo(PipelineCalls, MaxTotalsCalls)
    \cup {OverlapSnapshot, RepeatSnapshot, DuplicateSnapshot}

TotalsResponses ==
    {[kind |-> "error", body |-> <<>>]}
    \cup {[kind |-> "list", body |-> c] : c \in TotalsSnapshots}

MainTotals == MainOn(TotalsResponses)

NextTotals == MainTotals

SpecTotals == Init /\ [][NextTotals]_vars

\* C10: from no persisted files, after any serialized sequence of cycles,
\* successful or failed, in which no fetched snapshot repeats an identifier,
\* total_calls_tracked - total_resolved is the count of the persisted
\* snapshot (stats and snapshot exist together); the equality can fail once a
\* fetched snapshot repeats an identifier.
C10_TrackedMinusResolved ==
    firstDup = 0 =>
        /\ statsFile.exists <=> snapshotFile.exists
        /\ snapshotFile.exists =>
              /\ Snapshot.ok
              /\ Stats.total_calls_tracked - Stats.total_resolved = Snapshot.count
              /\ Snapshot.count = Len(Snapshot.calls)
              /\ Snapshot.count = Cardinality(IdSet(Snapshot.calls))

\* two cycles without a repeated identifier, two records each, the second
\* keeping one record, bringing one and resolving one (3 tracked, 1 resolved,
\* 2 active); then the first payload that repeats an identifier: the totals
\* say 3 - 2 = 1 and the snapshot holds 2
C10_DuplicateBreaksEquality ==
    /\ firstDup = 3
    /\ counts = <<2, 2, 2>>
    /\ ~HasDuplicateIds(previous_calls)
    /\ Len(new_calls) = 0 /\ Len(resolved_calls) = 1
    /\ Stats.total_calls_tracked = 3
    /\ Stats.total_resolved = 2
    /\ Snapshot.count = 2
    /\ Stats.total_calls_tracked - Stats.total_resolved # Snapshot.count

\* without a repeated identifier: a cycle kept one call, brought one and
\* resolved one, then a fetch failed
UniqueOverlapThenFailure ==
    /\ firstDup = 0
    /\ exitCode = 1
    /\ counts = <<2, 2>>
    /\ Len(new_calls) = 1 /\ Len(resolved_calls) = 1
    /\ Stats.total_calls_tracked = 3 /\ Stats.total_resolved = 1
    /\ Snapshot.count = 2

(***************************************************************************)
(* The Differ as a function (specification SpecCompare)                    *)
(***************************************************************************)
\* two records share "A1" and differ in their other fields; one has no id
CmpCalls ==
    { Call("A1", <<"T", "S">>, <<"1", "C">>, Date_Morning),
      Call("A1", <<"s", "t">>, <<"2", "C">>, Date_Bad),
      Call("B2", <<"T", "S">>, <<"1", "C">>, Date_AfternoonZ),
      CallNoId(<<"T", "S">>, <<"3">>) }

CmpInputs == SeqsUpTo(CmpCalls, MaxCmpLen)

InitCompare ==
    /\ snapshotFile = NoFile
    /\ logFile = NoLog
    /\ archive = [d \in Days |-> NoArchive]
    /\ statsFile = NoStats
    /\ today = 1
    /\ now = 0
    /\ exitCode = -1
    /\ previous_calls \in CmpInputs
    /\ current_calls \in CmpInputs
    /\ new_calls = <<>>
    /\ resolved_calls = <<>>
    /\ counts = <<>>
    /\ firstDup = 0
    /\ pc = "compare"
    /\ pending = <<>>
    /\ oldFile = NoFile
    /\ readResult = [read |-> FALSE, ok |-> TRUE, calls |-> <<>>, timestamp |-> 0, count |-> 0]
    /\ IdleAlerts

\* new_calls, resolved_calls = compare_calls(previous_calls, current_calls)
Compare ==
    /\ pc = "compare"
    /\ LET diff == compare_calls(previous_calls, current_calls)
       IN  /\ new_calls' = diff.new
           /\ resolved_calls' = diff.resolved
    /\ pc' = "compared"
    /\ UNCHANGED <<fileVars, today, now, exitCode, previous_calls, current_calls,
                   counts, firstDup, pending, oldFile, readResult, alertVars>>

NextCompare == Compare

SpecCompare == InitCompare /\ [][NextCompare]_vars

\* out holds exactly the records of src whose identifier no record of other
\* has, each at the rank it has among them in src
IsSelection(out, src, other) ==
    LET keep == {i \in 1..Len(src) :
                    \A j \in 1..Len(other) : Id(other[j]) # Id(src[i])}
    IN  /\ Len(out) = Cardinality(keep)
        /\ \A i \in keep : out[Cardinality({j \in keep : j <= i})] = src[i]

\* C3: 'new' is exactly the records of current whose identifier no record of
\* previous has, in the order of current; 'resolved' is exactly the records of
\* previous whose identifier no record of current has, in the order of
\* previous; a record whose identifier is in both is in neither result, even
\* when its other fields differ.
C3_CompareSelectsByIdentifier ==
    pc = "compared" =>
        /\ IsSelection(new_calls, current_calls, previous_calls)
        /\ IsSelection(resolved_calls, previous_calls, current_calls)
        /\ \A i \in 1..Len(current_calls), j \in 1..Len(previous_calls) :
              Id(current_calls[i]) = Id(previous_calls[j]) =>
                 /\ \A k \in 1..Len(new_calls) : Id(new_calls[k]) # Id(current_calls[i])
                 /\ \A k \in 1..Len(resolved_calls) :
                       Id(resolved_calls[k]) # Id(current_calls[i])

\* one record is new, one is resolved, and one kept its identifier while its
\* description changed
C3_Witness ==
    /\ pc = "compared"
    /\ new_calls # <<>>
    /\ resolved_calls # <<>>
    /\ \E i \in 1..Len(current_calls), j \in 1..Len(previous_calls) :
          /\ Id(current_calls[i]) = Id(previous_calls[j])
          /\ current_calls[i] # previous_calls[j]

(***************************************************************************)
(* save_current_calls against a reader (specification SpecRace)            *)
(***************************************************************************)
NotRead == [read |-> FALSE, ok |-> TRUE, calls |-> <<>>, timestamp |-> 0, count |-> 0]

\* what a reader obtains from the file: the value load_previous_calls
\* returns, or the JSONDecodeError json.load raises
ReadOf(file) ==
    LET r == load_previous_calls(file)
    IN  [read |-> TRUE, ok |-> r.ok, calls |-> r.calls,
         timestamp |-> r.timestamp, count |-> r.count]

\* a previous cycle left a snapshot (or none), and main is about to save
InitRace ==
    /\ snapshotFile \in {NoFile} \cup {save_current_calls(c, 1) : c \in FetchedSnapshots}
    /\ logFile = NoLog
    /\ archive = [d \in Days |-> NoArchive]
    /\ statsFile = NoStats
    /\ today = 1
    /\ now = 2
    /\ exitCode = -1
    /\ previous_calls = <<>>
    /\ current_calls \in FetchedSnapshots
    /\ new_calls = <<>>
    /\ resolved_calls = <<>>
    /\ counts = <<>>
    /\ firstDup = 0
    /\ pc = "save"
    /\ pending = <<>>
    /\ oldFile = snapshotFile
    /\ readResult = NotRead
    /\ IdleAlerts

raceFrame == <<logFile, archive, statsFile, today, now, exitCode, mainLocals,
               counts, firstDup, oldFile, alertVars>>

\* open(CURRENT_CALLS_FILE, 'w'): the file is created or truncated at once
SaveOpen ==
    /\ pc = "save"
    /\ snapshotFile' = [exists |-> TRUE, content |-> <<>>]
    /\ pending' = Dump(SnapshotData(current_calls, now))
    /\ pc' = "dump"
    /\ UNCHANGED <<raceFrame, readResult>>

\* json.dump writes chunk after chunk; the buffer reaches the file in pieces
SaveFlush ==
    /\ pc = "dump"
    /\ \E k \in 1..(Len(pending) - 1) :
          /\ snapshotFile' = [snapshotFile EXCEPT
                                 !.content = @ \o SubSeq(pending, 1, k)]
          /\ pending' = SubSeq(pending, k + 1, Len(pending))
    /\ UNCHANGED <<raceFrame, readResult, pc>>

\* leaving the with block flushes what is left and closes the file
SaveClose ==
    /\ pc = "dump"
    /\ snapshotFile' = [snapshotFile EXCEPT !.content = @ \o pending]
    /\ pending' = <<>>
    /\ pc' = "saved"
    /\ UNCHANGED <<raceFrame, readResult>>

\* another process opens the snapshot file and json.loads it
ReaderLoads ==
    /\ readResult' = ReadOf(snapshotFile)
    /\ UNCHANGED <<raceFrame, snapshotFile, pending, pc>>

NextRace == SaveOpen \/ SaveFlush \/ SaveClose \/ ReaderLoads

SpecRace == InitRace /\ [][NextRace]_vars

\* C2 as stated: a reader interleaved with save_current_calls obtains the
\* complete old snapshot or the complete new snapshot, never an empty or
\* partially written file.
C2_ReaderSeesOldOrNew ==
    readResult.read =>
        \/ readResult = ReadOf(oldFile)
        \/ readResult = [read |-> TRUE, ok |-> TRUE, calls |-> current_calls,
                         timestamp |-> now, count |-> Len(current_calls)]

(***************************************************************************)
(* Alert evaluator (specification SpecAlerts)                              *)
(***************************************************************************)
HIGH_VOLUME_THRESHOLD == 10

\* alerts[:5]
AlertCap == 5

Red == "0xFF0000"
Orange == "0xFFA500"
Yellow == "0xFFFF00"

Alert(title, description, color) ==
    [title |-> title, description |-> description, color |-> color]

\* the "High volume alert" block of check_alerts
VolumeAlerts(current) ==
    IF Len(current) >= HIGH_VOLUME_THRESHOLD
    THEN <<Alert([high_activity |-> Len(current)], [text |-> "unusually high"], Red)>>
    ELSE <<>>

\* for alert_type in ALERT_CALL_TYPES: if alert_type in call_type: ...; break
RECURSIVE TypeAlerts(_, _, _, _)
TypeAlerts(types, call_type, address, incident) ==
    IF types = <<>> THEN <<>>
    ELSE IF Contains(call_type, Head(types))
         THEN <<Alert([call_type |-> call_type],
                      [location |-> address, incident |-> incident], Orange)>>
         ELSE TypeAlerts(Tail(types), call_type, address, incident)

\* for alert_addr in ALERT_ADDRESSES: if alert_addr.upper() in address.upper(): ...; break
RECURSIVE AddressAlerts(_, _, _, _)
AddressAlerts(addrs, call_type, address, incident) ==
    IF addrs = <<>> THEN <<>>
    ELSE IF Contains(Upper(address), Upper(Head(addrs)))
         THEN <<Alert([watched |-> "Activity at Watched Location"],
                      [type |-> call_type, location |-> address,
                       incident |-> incident], Yellow)>>
         ELSE AddressAlerts(Tail(addrs), call_type, address, incident)

\* the body of `for call in new_calls` for one call
CallAlerts(call, types, addrs) ==
    LET call_type == Upper(Get(call, "Online_Description", <<>>))
        address == Get(call, "Address", <<>>)
        incident == Get(call, "Master_Incident_Number", "")
    IN  TypeAlerts(types, call_type, address, incident)
        \o AddressAlerts(addrs, call_type, address, incident)

RECURSIVE PerCallAlerts(_, _, _)
PerCallAlerts(calls, types, addrs) ==
    IF calls = <<>> THEN <<>>
    ELSE CallAlerts(Head(calls), types, addrs) \o PerCallAlerts(Tail(calls), types, addrs)

check_alerts(current, new, types, addrs) ==
    VolumeAlerts(current) \o PerCallAlerts(new, types, addrs)

\* variant: every alert is handed to send_discord_alert
Capped_All(as) == as

\* alerts[:5]
Capped(as) == Take(as, AlertCap)

\* keeps the elements of s whose index is not in failed
RECURSIVE Surviving(_, _, _)
Surviving(s, failed, i) ==
    IF i > Len(s) THEN <<>>
    ELSE (IF i \in failed THEN <<>> ELSE <<s[i]>>) \o Surviving(s, failed, i + 1)

\* descriptions and addresses of the records behind the type and address rules
RuleDescs == {<<"T", "S">>, <<"t", "s">>, <<"x", "T", "s">>, <<"S", "T">>}
RuleAddrs == {<<"1", "C">>, <<"2", "c">>, <<"3">>}

RuleCalls ==
    { Call("A1", <<"T", "S">>, <<"1", "C">>, Date_Morning),
      Call("B2", <<"t", "s">>, <<"3">>, Date_Morning),
      Call("C3", <<"x", "T", "s">>, <<"2", "c">>, Date_Bad),
      Call("D4", <<"S", "T">>, <<"1", "C">>, Date_Morning),
      Call("E5", <<"S", "T">>, <<"3">>, Date_Morning),
      [Master_Incident_Number |-> "F6"] }

\* the two records of the long snapshots: one matches both rules when they
\* are configured, the other none
VolumeCalls ==
    { Call("A1", <<"T", "S">>, <<"1", "C">>, Date_Morning),
      Call("E5", <<"S", "T">>, <<"3">>, Date_Morning) }

\* ALERT_CALL_TYPES as shipped is upper case; an edited list may not be
TypeLists == { <<>>, << <<"T", "S">> >>, << <<"t", "s">> >>,
               << <<"S", "x">>, <<"T", "S">> >>, << <<"T", "S">>, <<"S", "T">> >> }

\* ALERT_ADDRESSES as shipped is empty
AddrLists == { <<>>, << <<"C">> >>, << <<"c">> >> }

\* the file as an overlapping save_current_calls leaves it for a while:
\* truncated, or holding the start of the document
TruncatedSnapshots ==
    { [exists |-> TRUE, content |-> <<>>],
      [exists |-> TRUE, content |-> <<ChunkOpen>>] }

InitAlerts ==
    /\ \/ /\ snapshotFile \in {NoFile} \cup TruncatedSnapshots \cup
                {save_current_calls(c, 1) : c \in SeqsUpTo(RuleCalls, MaxRuleCalls)}
          /\ alertCallTypes \in TypeLists
          /\ alertAddresses \in AddrLists
       \/ /\ snapshotFile \in
                {save_current_calls(c, 1) : c \in SeqsUpTo(VolumeCalls, MaxAlertCalls)}
          /\ alertCallTypes = << <<"T", "S">> >>
          /\ alertAddresses \in { <<>>, << <<"C">> >> }
    /\ webhook \in BOOLEAN
    /\ alerts = <<>>
    /\ sent = <<>>
    /\ posted = <<>>
    /\ logFile = NoLog
    /\ archive = [d \in Days |-> NoArchive]
    /\ statsFile = NoStats
    /\ today = 1
    /\ now = 1
    /\ exitCode = -1
    /\ previous_calls = <<>>
    /\ current_calls = <<>>
    /\ new_calls = <<>>
    /\ resolved_calls = <<>>
    /\ counts = <<>>
    /\ firstDup = 0
    /\ pc = "alert"
    /\ pending = <<>>
    /\ oldFile = NoFile
    /\ readResult = NotRead

\* main() of discord_alerts.py; send_discord_alert posts only when
\* WEBHOOK_URL is set, and a failed POST is caught and printed
AlertMain ==
    /\ pc = "alert"
    /\ IF ~snapshotFile.exists
       THEN \* "No current calls data found": return
            alerts' = <<>> /\ sent' = <<>> /\ posted' = <<>> /\ pc' = "alerted"
       ELSE LET data == Load(snapshotFile.content)
                found == check_alerts(data.calls, data.calls,
                                      alertCallTypes, alertAddresses)
            IN  IF ~data.ok
                THEN \* json.load raises JSONDecodeError: the process dies
                     \* before check_alerts is called
                     UNCHANGED <<alerts, sent, posted>> /\ pc' = "crashed"
                ELSE /\ alerts' = found
                     /\ sent' = Capped(found)
                     /\ IF webhook
                        THEN \E failed \in SUBSET (1..Len(Capped(found))) :
                                posted' = Surviving(Capped(found), failed, 1)
                        ELSE posted' = <<>>
                     /\ pc' = "alerted"
    /\ UNCHANGED <<fileVars, today, now, exitCode, mainLocals, counts, firstDup,
                   pending, oldFile, readResult, alertCallTypes, alertAddresses,
                   webhook>>

NextAlerts == AlertMain

SpecAlerts == InitAlerts /\ [][NextAlerts]_vars

SnapshotCalls == Load(snapshotFile.content).calls

CountColor(as, color) == Cardinality({i \in 1..Len(as) : as[i].color = color})

\* s is t with some elements left out
RECURSIVE IsSubsequence(_, _)
IsSubsequence(s, t) ==
    IF s = <<>> THEN TRUE
    ELSE IF t = <<>> THEN FALSE
    ELSE IF Head(s) = Head(t) THEN IsSubsequence(Tail(s), Tail(t))
    ELSE IsSubsequence(s, Tail(t))

\* the alerts of records 1..n, record after record
RECURSIVE AlertsOfFirst(_)
AlertsOfFirst(n) ==
    IF n = 0 THEN <<>>
    ELSE AlertsOfFirst(n - 1)
         \o CallAlerts(SnapshotCalls[n], alertCallTypes, alertAddresses)

\* C7: one run hands at most 5 alerts to the delivery, exactly the first
\* min(5, n) of the n alerts of check_alerts in evaluation order: the volume
\* alert first, present once iff the active count is >= 10, then the alerts of
\* the records in record order; what is past the fifth is dropped, so a run
\* delivers nothing that is not among the first five alerts of the snapshot
\* it read (and nothing at all when the snapshot cannot be parsed).
C7_AtMostFiveInOrder ==
    /\ pc = "crashed" => (sent = <<>> /\ posted = <<>>)
    /\ (pc = "alerted" /\ snapshotFile.exists) =>
           LET n == Len(alerts)
               vol == IF Len(SnapshotCalls) >= 10 THEN 1 ELSE 0
           IN  /\ Len(sent) = (IF n < 5 THEN n ELSE 5)
               /\ \A i \in 1..Len(sent) : sent[i] = alerts[i]
               /\ Len(posted) <= 5
               /\ IsSubsequence(posted, sent)
               /\ ~webhook => posted = <<>>
               /\ CountColor(alerts, Red) = vol
               /\ vol = 1 => /\ alerts[1].color = Red
                             /\ alerts[1].title = [high_activity |-> Len(SnapshotCalls)]
               /\ SubSeq(alerts, vol + 1, n) = AlertsOfFirst(Len(SnapshotCalls))

\* a volume alert and more than four record alerts: some are dropped
C7_Witness ==
    /\ pc = "alerted"
    /\ Len(alerts) > 5
    /\ Len(sent) = 5
    /\ sent[1].color = Red
    /\ CountColor(sent, Yellow) >= 1
    /\ Len(posted) = 5

\* the watched substring w occurs in the description, letter case ignored
MatchesIgnoringCase(desc, w) == Contains(Upper(desc), Upper(w))

Watched(call) ==
    \E k \in 1..Len(alertCallTypes) :
        MatchesIgnoringCase(Get(call, "Online_Description", <<>>), alertCallTypes[k])

\* C8 as stated: for every record and every configured list of watched
\* call-type substrings, of any letter case, the type rule gives exactly one
\* alert for the record if its description contains a watched substring when
\* compared case-insensitively and none otherwise, whether or not the address
\* rule fires for the record.
C8_TypeRuleIgnoresCase ==
    (pc = "alerted" /\ snapshotFile.exists) =>
        /\ \A i \in 1..Len(SnapshotCalls) :
              CountColor(CallAlerts(SnapshotCalls[i], alertCallTypes, alertAddresses),
                         Orange)
                 = (IF Watched(SnapshotCalls[i]) THEN 1 ELSE 0)
        /\ CountColor(alerts, Orange)
              = Cardinality({i \in 1..Len(SnapshotCalls) : Watched(SnapshotCalls[i])})

====
